---- MODULE Spec2Model ----
(***************************************************************************)
(* A model of playmind.py: the command line arithmetic drill.              *)
(*                                                                         *)
(* The program is modelled in two ways it can be used: run as a script     *)
(* (main: two menus, the question count, the readiness prompt, the quiz)   *)
(* and imported as a module (PlayMindGame constructed with any arguments,  *)
(* start_game called on it, possibly more than once).                      *)
(*                                                                         *)
(* Python integers are unbounded; a non-negative integer that may exceed   *)
(* the checker's integers (a product of two operands, a typed answer) is   *)
(* kept as its sequence of decimal digits, least significant first.        *)
(* A line of input is a sequence of one-character strings.                 *)
(***************************************************************************)
EXTENDS Integers, Sequences, FiniteSets, TLC

\* ---------------------------------------------------------------- bounds

\* The largest question count a session is given.
MaxQuestions == 2
\* How many times start_game is called on one session object.
MaxStarts == 2
\* The last reading of the clock, in ticks of 5 ms.
MaxClock == 1

\* ------------------------------------------------------- program constants

OPERATIONS == <<"Addition", "Substraction", "Multiplication", "Division [1 decimal]">>

LEVELS == <<"Easy", "Medium", "Hard", "Super Hard", "Difficult">>

\* The local list `operations` of start_game.
operations == <<"+", "-", "*", "/">>

\* ------------------------------------------------- Python lists and integers

\* seq[idx] of Python raises IndexError outside -len .. len-1.
PyIndexOk(seq, idx) == -Len(seq) <= idx /\ idx <= Len(seq) - 1

\* seq[idx] of Python: a negative index counts from the end.
PyIndex(seq, idx) == IF idx >= 0 THEN seq[idx + 1] ELSE seq[Len(seq) + idx + 1]

RECURSIVE NatDigits(_)
\* The decimal digits of n >= 0, least significant first; zero is <<>>.
NatDigits(n) == IF n = 0 THEN <<>> ELSE <<n % 10>> \o NatDigits(n \div 10)

RECURSIVE AddInt(_, _)
\* digits + c for an integer c >= 0.
AddInt(digits, c) ==
  IF c = 0 THEN digits
  ELSE IF digits = <<>> THEN NatDigits(c)
  ELSE <<(digits[1] + c) % 10>> \o AddInt(Tail(digits), (digits[1] + c) \div 10)

RECURSIVE MulDigits(_, _)
\* The digits of a * b (operator.mul on unbounded integers), by the digits of b.
MulDigits(a, b) ==
  IF a = 0 \/ b = 0 THEN <<>>
  ELSE LET low == a * (b % 10)
           rest == MulDigits(a, b \div 10)
       IN  IF rest = <<>> THEN NatDigits(low)
           ELSE <<low % 10>> \o AddInt(rest, low \div 10)

RECURSIVE DropLeadingZeros(_)
\* Most-significant-first digits without their leading zeros.
DropLeadingZeros(ds) ==
  IF ds = <<>> THEN <<>>
  ELSE IF ds[1] = 0 THEN DropLeadingZeros(Tail(ds)) ELSE ds

RECURSIVE Reverse(_)
Reverse(s) == IF s = <<>> THEN <<>> ELSE Reverse(Tail(s)) \o <<s[1]>>

\* ------------------------------------------------------------ input lines

DigitChars == <<"0", "1", "2", "3", "4", "5", "6", "7", "8", "9">>

IsDigitChar(c) == \E d \in 1..10 : DigitChars[d] = c

CharDigit(c) == (CHOOSE d \in 1..10 : DigitChars[d] = c) - 1

RECURSIVE LStrip(_)
LStrip(s) == IF s # <<>> /\ s[1] = " " THEN LStrip(Tail(s)) ELSE s

\* str.strip(): the line without leading and trailing white space.
strip(s) == Reverse(LStrip(Reverse(LStrip(s))))

\* str.lower() on the letters the input alphabet has.
lower(s) == [k \in 1..Len(s) |-> IF s[k] = "Y" THEN "y" ELSE IF s[k] = "N" THEN "n" ELSE s[k]]

\* int(text): white space stripped, an optional sign, then one or more decimal
\* digits; anything else raises ValueError (ok = FALSE).  The value is its sign
\* and its magnitude's digits, least significant first.
int(text) ==
  LET s    == strip(text)
      sgn  == s # <<>> /\ s[1] \in {"+", "-"}
      body == IF sgn THEN Tail(s) ELSE s
      ok   == body # <<>> /\ \A k \in 1..Len(body) : IsDigitChar(body[k])
      mag  == IF ok
              THEN Reverse(DropLeadingZeros([k \in 1..Len(body) |-> CharDigit(body[k])]))
              ELSE <<>>
  IN  [ok |-> ok, neg |-> ok /\ sgn /\ s[1] = "-" /\ mag # <<>>, mag |-> mag]

\* str(n) for a non-negative integer given by its digits.
str(digits) ==
  IF digits = <<>> THEN <<"0">>
  ELSE [k \in 1..Len(digits) |-> DigitChars[digits[Len(digits) + 1 - k] + 1]]

RECURSIVE DigitsValue(_)
\* The integer a short digit sequence stands for.
DigitsValue(digits) ==
  IF digits = <<>> THEN 0 ELSE digits[1] + 10 * DigitsValue(Tail(digits))

\* An event at a prompt: a line typed, Ctrl-C (KeyboardInterrupt), or the end
\* of the input (EOFError).
Line(text) == [type |-> "line", text |-> text]

Interrupt == [type |-> "interrupt", text |-> <<>>]

EndOfInput == [type |-> "eof", text |-> <<>>]

\* The lines typed at the menus, the question count and the readiness prompt.
Lines ==
  { <<>>, <<"x">>, <<"1", ".", "5">>, <<"0">>, <<"-", "2">>, <<" ", "0", "1", " ">>,
    <<"1">>, <<"2">>, <<"3">>, <<"4">>, <<"5">>, <<"6">>,
    <<"y">>, <<" ", "Y", " ">>, <<"n">> }

Inputs == {Line(t) : t \in Lines} \cup {Interrupt, EndOfInput}

\* ------------------------------------------------------- the pure functions

RECURSIVE TimesTen(_, _)
\* `for _ in range(k): start *= 10`
TimesTen(start, k) == IF k <= 0 THEN start ELSE TimesTen(start * 10, k - 1)

\* A loop that runs one time too few.
get_level_nums_one_less(lvl) ==
  LET start == TimesTen(1, lvl - 1) IN <<start, start * 10 - 1>>

\* get_level_nums: the list [start, end] for the level.
get_level_nums(lvl) ==
  LET start == TimesTen(1, lvl) IN <<start, start * 10 - 1>>

\* randint(lo, hi): the values the model draws, a sample of lo..hi that has
\* both ends, equal and unequal pairs, a whole quotient (2lo / lo), one that
\* is not whole (hi / lo), one that rounds to a whole number (hi / 2lo above
\* level 1) and a tie of the rounding (hi / 2lo at level 1).
randint(lo, hi) == {x \in {lo, 2 * lo, hi} : lo <= x /\ x <= hi}

\* A draw that forgets the lower limit.
get_random_num_from_zero(lvl) == randint(0, get_level_nums(lvl)[2])

\* get_random_num: the values one draw can return.
get_random_num(lvl) == randint(get_level_nums(lvl)[1], get_level_nums(lvl)[2])

RECURSIVE Log2Up(_, _)
\* floor(log2(a / b)) for a >= b >= 1.
Log2Up(a, b) == IF a < 2 * b THEN 0 ELSE 1 + Log2Up(a, 2 * b)

RECURSIVE Log2Down(_, _)
\* -floor(log2(a / b)) for 1 <= a < b.
Log2Down(a, b) == IF 2 * a >= b THEN 1 ELSE 1 + Log2Down(2 * a, b)

\* 2^p mod 20 for p >= 2.
TwoPowMod20(p) == CASE p % 4 = 0 -> 16 [] p % 4 = 1 -> 12 [] p % 4 = 2 -> 4 [] OTHER -> 8

\* round(a / b, 1) in tenths, for a >= 0, b >= 1.  a / b is the double nearest
\* to the quotient and round() rounds that double's exact value, half to even.
\* Off a tie the double lies on the quotient's side.  On a tie the quotient is
\* n / 20 with n odd: the double is exact when 5 divides n (half to even), and
\* otherwise lies above the quotient exactly when the bits cut off after the
\* 53rd, (n * 2^(52 - e)) mod 20 out of 20, exceed one half.
Round1(a, b) ==
  LET q == (10 * a) \div b
      r == (10 * a) % b
      n == 2 * q + 1
      e == IF a >= b THEN Log2Up(a, b) ELSE 0 - Log2Down(a, b)
      cut == (n * TwoPowMod20(52 - e)) % 20
  IN  IF 2 * r < b THEN q
      ELSE IF 2 * r > b THEN q + 1
      ELSE IF cut = 0 THEN (IF q % 2 = 0 THEN q ELSE q + 1)
      ELSE IF cut > 10 THEN q + 1 ELSE q

\* get_result: round(operation(num_a, num_b), 1).  An integer rounds to itself;
\* the quotient is a float with one decimal: sign, whole part, tenth.
get_result(operator, a, b) ==
  CASE operator = "+" -> [neg |-> FALSE, int |-> NatDigits(a + b), tenth |-> 0]
    [] operator = "-" -> [neg |-> a < b, int |-> NatDigits(IF a < b THEN b - a ELSE a - b), tenth |-> 0]
    [] operator = "*" -> [neg |-> FALSE, int |-> MulDigits(a, b), tenth |-> 0]
    [] operator = "/" -> [neg |-> FALSE, int |-> NatDigits(Round1(a, b) \div 10),
                          tenth |-> Round1(a, b) % 10]

\* A comparison with the result's whole part, int(result).
Equal_whole_part(res, answer) == ~res.neg /\ res.int = answer

\* `result == user_answer`: the numbers are equal, whatever their types.
Equal(res, answer) == ~res.neg /\ res.tenth = 0 /\ res.int = answer

\* A get_positive_int that tests `num < 0`: zero is returned.
get_positive_int_zero_returned(inp) ==
  IF inp.type = "interrupt" THEN [kind |-> "exit", value |-> <<>>]
  ELSE IF inp.type = "eof" THEN [kind |-> "raise", value |-> <<>>]
  ELSE IF ~int(inp.text).ok THEN [kind |-> "again", value |-> <<>>]
  ELSE IF int(inp.text).neg THEN [kind |-> "again", value |-> <<>>]
  ELSE [kind |-> "return", value |-> int(inp.text).mag]

\* A get_positive_int whose try has no `except KeyboardInterrupt`.
get_positive_int_interrupt_uncaught(inp) ==
  IF inp.type \in {"interrupt", "eof"} THEN [kind |-> "raise", value |-> <<>>]
  ELSE IF ~int(inp.text).ok THEN [kind |-> "again", value |-> <<>>]
  ELSE IF int(inp.text).neg \/ int(inp.text).mag = <<>> THEN [kind |-> "again", value |-> <<>>]
  ELSE [kind |-> "return", value |-> int(inp.text).mag]

\* get_positive_int on one event at its prompt: it returns the integer, asks
\* again, exits with its message, or lets EOFError through.
get_positive_int(inp) ==
  IF inp.type = "interrupt" THEN [kind |-> "exit", value |-> <<>>]
  ELSE IF inp.type = "eof" THEN [kind |-> "raise", value |-> <<>>]
  ELSE IF ~int(inp.text).ok THEN [kind |-> "again", value |-> <<>>]
  ELSE IF int(inp.text).neg \/ int(inp.text).mag = <<>> THEN [kind |-> "again", value |-> <<>>]
  ELSE [kind |-> "return", value |-> int(inp.text).mag]

\* `option <= len(options)` for an integer given by its digits.
LeqInt(digits, n) == Len(digits) <= 9 /\ DigitsValue(digits) <= n

\* round(end_time - start_time, 2) in hundredths of a second, for an elapsed
\* time in ticks of 5 ms.  An odd number of ticks is a tie in decimal; the
\* float difference is not one, and falls on either side.
round2(ticks) == IF ticks % 2 = 0 THEN {ticks \div 2} ELSE {ticks \div 2, ticks \div 2 + 1}

\* ------------------------------------------------------------------ state

VARIABLES
  pc,             \* where the program is: "boot", "op_menu", "level_menu", "count",
                  \* "ready" (init_game's prompt), "NotStarted" (constructed by an
                  \* importing caller), "loop" (start_game at the head of its loop),
                  \* "ask" (start_game inside get_positive_int), "Completed",
                  \* "exited" (exit(message)), "crashed" (an uncaught exception)
  mode,           \* "none", "main" (run as a script) or "api" (imported)
  operation,      \* self.operation (in main, the local before the constructor runs)
  level,          \* self.level
  num_questions,  \* self.num_questions
  num_correct,    \* self.num_correct
  num_incorrect,  \* self.num_incorrect
  total_time,     \* self.total_time, in hundredths of a second
  now,            \* time.perf_counter(), in ticks of 5 ms
  start_time,     \* the local start_time of start_game
  i,              \* the iterations of start_game's loop that have finished
  num_a,          \* the locals of the loop's body
  num_b,
  limits,         \* what get_level_nums returned to get_random_num
  operator_str,
  result,
  user_answer,
  out,            \* what has been printed of the results: "HIGHSCORES", "table", "WIN"
  exit_msg,       \* the message of exit(message)
  error,          \* the uncaught exception
  starts,         \* how many times start_game has been entered
  asked,          \* how many questions start_game has handed to get_positive_int
  answered        \* how many answers get_positive_int has returned to start_game

vars == <<pc, mode, operation, level, num_questions, num_correct, num_incorrect,
          total_time, now, start_time, i, num_a, num_b, limits, operator_str,
          result, user_answer, out, exit_msg, error, starts, asked, answered>>

fields == <<operation, level, num_questions, num_correct, num_incorrect, total_time>>

question == <<num_a, num_b, limits, operator_str, result, user_answer>>

NoResult == [neg |-> FALSE, int |-> <<>>, tenth |-> 0]

\* The frame of start_game before its first question and after it is left.
NoQuestion ==
  /\ num_a' = 0
  /\ num_b' = 0
  /\ limits' = <<0, 0>>
  /\ operator_str' = ""
  /\ result' = NoResult
  /\ user_answer' = <<>>

Init ==
  /\ pc = "boot"
  /\ mode = "none"
  /\ operation = 0
  /\ level = 0
  /\ num_questions = 0
  /\ num_correct = 0
  /\ num_incorrect = 0
  /\ total_time = 0
  /\ now = 0
  /\ start_time = 0
  /\ i = 0
  /\ num_a = 0
  /\ num_b = 0
  /\ limits = <<0, 0>>
  /\ operator_str = ""
  /\ result = NoResult
  /\ user_answer = <<>>
  /\ out = <<>>
  /\ exit_msg = ""
  /\ error = ""
  /\ starts = 0
  /\ asked = 0
  /\ answered = 0

\* The program ends with exit(message).
Exit(message) ==
  /\ pc' = "exited"
  /\ exit_msg' = message
  /\ UNCHANGED <<error, out>>

\* An exception nobody catches ends the program.
Raise(exception) ==
  /\ pc' = "crashed"
  /\ error' = exception
  /\ UNCHANGED <<exit_msg, out>>

\* ------------------------------------------------------------ PlayMindGame

\* __init__: the fields of a new session.
PlayMindGame(op, lvl, n) ==
  /\ operation' = op
  /\ level' = lvl
  /\ num_questions' = n
  /\ num_correct' = 0
  /\ num_incorrect' = 0
  /\ total_time' = 0

\* The arguments an importing caller constructs a session with: the values the
\* menus offer, then one below and one above them; the counts 1..MaxQuestions,
\* then 0 and -1.
ArgOperations == <<1, 2, 3, 4, 0, 5>>

ArgLevels == <<1, 2, 3, 4, 5, 0, 6>>

ArgCounts == [k \in 1..(MaxQuestions + 2) |-> IF k <= MaxQuestions THEN k ELSE MaxQuestions + 1 - k]

\* An importing caller constructs a session.
Construct(op, lvl, n) ==
  /\ pc = "boot"
  /\ pc' = "NotStarted"
  /\ mode' = "api"
  /\ PlayMindGame(op, lvl, n)
  /\ UNCHANGED <<now, start_time, i, question, out, exit_msg, error, starts, asked, answered>>

\* start_game up to its loop: the timer is started.
start_game ==
  /\ pc' = "loop"
  /\ start_time' = now
  /\ i' = 0
  /\ starts' = starts + 1
  /\ NoQuestion
  /\ UNCHANGED <<mode, fields, now, out, exit_msg, error, asked, answered>>

\* An importing caller calls start_game, on a new session or on one that has
\* finished.
CallStartGame ==
  /\ mode = "api"
  /\ pc \in {"NotStarted", "Completed"}
  /\ starts < MaxStarts
  /\ start_game

\* What a step that ends the program, or asks again, leaves alone.
rest == <<mode, fields, now, start_time, i, question, starts, asked, answered>>

\* get_positive_int has no integer to return: it asks again (nothing the model
\* keeps changes), exits on Ctrl-C, or lets EOFError through.
NoValue(r) ==
  CASE r.kind = "again" -> UNCHANGED vars
    [] r.kind = "exit" -> Exit("Game Interrupted, Quitting.") /\ UNCHANGED rest
    [] r.kind = "raise" -> Raise("EOFError") /\ UNCHANGED rest

\* An order that swaps the wrong way round.
Order_reversed(a, b) == IF a > b THEN <<b, a>> ELSE <<a, b>>

\* `if num_a < num_b: num_a, num_b = num_b, num_a`
Order(a, b) == IF a < b THEN <<b, a>> ELSE <<a, b>>

\* The loop's body up to the prompt: two draws, the larger first, the operator
\* and the expected result.  operations[self.operation - 1] raises IndexError
\* and a division by zero raises ZeroDivisionError.
NextQuestion ==
  /\ pc = "loop"
  /\ i < num_questions
  /\ \E a \in get_random_num(level), b \in get_random_num(level) :
       IF ~PyIndexOk(operations, operation - 1)
       THEN Raise("IndexError") /\ NoQuestion /\ UNCHANGED asked
       ELSE IF PyIndex(operations, operation - 1) = "/" /\ Order(a, b)[2] = 0
       THEN Raise("ZeroDivisionError") /\ NoQuestion /\ UNCHANGED asked
       ELSE /\ pc' = "ask"
            /\ asked' = asked + 1
            /\ limits' = get_level_nums(level)
            /\ num_a' = Order(a, b)[1]
            /\ num_b' = Order(a, b)[2]
            /\ operator_str' = PyIndex(operations, operation - 1)
            /\ result' = get_result(PyIndex(operations, operation - 1),
                                    Order(a, b)[1], Order(a, b)[2])
            /\ user_answer' = <<>>
            /\ UNCHANGED <<out, exit_msg, error>>
  /\ UNCHANGED <<mode, fields, now, start_time, i, starts, answered>>

\* The lines typed at a question: no number, numbers that are not positive,
\* a small number, and the expected result's whole part.
AnswerLines == {<<"x">>, <<"0">>, <<"-", "2">>, <<"1">>, str(result.int)}

AnswerInputs == {Line(t) : t \in AnswerLines} \cup {Interrupt, EndOfInput}

\* A score without its else branch.
Score_correct_only(res, answer) == IF Equal(res, answer) THEN <<1, 0>> ELSE <<0, 0>>

\* `if result == user_answer`: what is added to num_correct and num_incorrect.
Score(res, answer) == IF Equal(res, answer) THEN <<1, 0>> ELSE <<0, 1>>

\* The prompt of a question and the scoring of the answer it returns.
AnswerQuestion(inp) ==
  /\ pc = "ask"
  /\ IF get_positive_int(inp).kind = "return"
     THEN /\ user_answer' = get_positive_int(inp).value
          /\ num_correct' = num_correct + Score(result, get_positive_int(inp).value)[1]
          /\ num_incorrect' = num_incorrect + Score(result, get_positive_int(inp).value)[2]
          /\ i' = i + 1
          /\ answered' = answered + 1
          /\ pc' = "loop"
          /\ UNCHANGED <<mode, operation, level, num_questions, total_time, now,
                         start_time, num_a, num_b, limits, operator_str, result,
                         out, exit_msg, error, starts, asked>>
     ELSE NoValue(get_positive_int(inp))

\* A check_win that compares the answers counted with num_questions.
check_win_all_answered ==
  IF num_correct + num_incorrect = num_questions THEN <<"WIN">> ELSE <<>>

\* check_win: what it prints.
check_win == IF num_correct = num_questions THEN <<"WIN">> ELSE <<>>

\* `headers` of show_highscores, before its loop.
headers == <<"Operation", "Level", "Correct", "Incorrect", "Total", "Time">>

\* str(self.total_time) for the float that round(..., 2) returned, given in
\* hundredths: at least one decimal, two when the second is not zero.
float_str(t) ==
  ToString(t \div 100) \o "." \o ToString((t % 100) \div 10)
    \o (IF t % 10 = 0 THEN "" ELSE ToString(t % 10))

\* str(highscores[i]) for the list `highscores` of show_highscores.
highscores ==
  << PyIndex(OPERATIONS, operation - 1), PyIndex(LEVELS, level - 1),
     ToString(num_correct), ToString(num_incorrect), ToString(num_questions),
     float_str(total_time) >>

RECURSIVE Spaces(_)
\* ' ' * num_spaces
Spaces(n) == IF n <= 0 THEN "" ELSE " " \o Spaces(n - 1)

\* A loop body without its first branch: only the value is padded.
padded_value_only(k) ==
  <<headers[k], highscores[k] \o Spaces(Len(headers[k]) - Len(highscores[k]))>>

\* The loop of show_highscores on column k: the header cell and the value cell
\* that are printed.
padded(k) ==
  IF Len(headers[k]) < Len(highscores[k])
  THEN <<headers[k] \o Spaces(Len(highscores[k]) - Len(headers[k])), highscores[k]>>
  ELSE <<headers[k], highscores[k] \o Spaces(Len(headers[k]) - Len(highscores[k]))>>

\* show_highscores: the title, then the table (OPERATIONS[self.operation - 1]
\* and LEVELS[self.level - 1] raise IndexError), then check_win.
show_highscores ==
  IF PyIndexOk(OPERATIONS, operation - 1) /\ PyIndexOk(LEVELS, level - 1)
  THEN /\ out' = out \o <<"HIGHSCORES", "table">> \o check_win
       /\ pc' = "Completed"
       /\ UNCHANGED <<error, exit_msg>>
  ELSE /\ out' = Append(out, "HIGHSCORES")
       /\ pc' = "crashed"
       /\ error' = "IndexError"
       /\ UNCHANGED exit_msg

\* start_game after its loop: the time is taken and the result is shown.
FinishGame ==
  /\ pc = "loop"
  /\ i >= num_questions
  /\ \E end_time \in now..MaxClock :
       /\ now' = end_time
       /\ total_time' \in round2(end_time - start_time)
  /\ show_highscores
  /\ start_time' = 0
  /\ i' = 0
  /\ NoQuestion
  /\ UNCHANGED <<mode, operation, level, num_questions, num_correct, num_incorrect,
                 starts, asked, answered>>

\* ------------------------------------------------------------------- main

\* main up to the first menu.
main ==
  /\ pc = "boot"
  /\ pc' = "op_menu"
  /\ mode' = "main"
  /\ UNCHANGED <<fields, now, start_time, i, question, out, exit_msg, error,
                 starts, asked, answered>>

\* A get_game_option without its `option <= len(options)` test.
get_game_option_unbounded(inp, options) == get_positive_int(inp)

\* get_game_option on one event: the menu is shown again for a number above
\* the number of options.
get_game_option(inp, options) ==
  IF get_positive_int(inp).kind = "return" /\ ~LeqInt(get_positive_int(inp).value, Len(options))
  THEN [kind |-> "again", value |-> <<>>]
  ELSE get_positive_int(inp)

\* `operation = get_game_option(..., OPERATIONS)`
ChooseOperation(inp) ==
  /\ pc = "op_menu"
  /\ IF get_game_option(inp, OPERATIONS).kind = "return"
     THEN /\ operation' = DigitsValue(get_game_option(inp, OPERATIONS).value)
          /\ pc' = "level_menu"
          /\ UNCHANGED <<mode, level, num_questions, num_correct, num_incorrect,
                         total_time, now, start_time, i, question, out, exit_msg,
                         error, starts, asked, answered>>
     ELSE NoValue(get_game_option(inp, OPERATIONS))

\* `level = get_game_option(..., LEVELS)`
ChooseLevel(inp) ==
  /\ pc = "level_menu"
  /\ IF get_game_option(inp, LEVELS).kind = "return"
     THEN /\ level' = DigitsValue(get_game_option(inp, LEVELS).value)
          /\ pc' = "count"
          /\ UNCHANGED <<mode, operation, num_questions, num_correct, num_incorrect,
                         total_time, now, start_time, i, question, out, exit_msg,
                         error, starts, asked, answered>>
     ELSE NoValue(get_game_option(inp, LEVELS))

\* `num_questions = get_positive_int(...)`, then the constructor and
\* init_game's prompt.  Counts above MaxQuestions are not typed.
ChooseCount(inp) ==
  /\ pc = "count"
  /\ IF get_positive_int(inp).kind = "return"
     THEN /\ LeqInt(get_positive_int(inp).value, MaxQuestions)
          /\ PlayMindGame(operation, level, DigitsValue(get_positive_int(inp).value))
          /\ pc' = "ready"
          /\ UNCHANGED <<mode, now, start_time, i, question, out, exit_msg, error,
                         starts, asked, answered>>
     ELSE NoValue(get_positive_int(inp))

\* init_game: `y` starts the game.  For any other line the elif evaluates
\* `ready.strip.lower()`, an attribute of a method, which raises
\* AttributeError; input() is not inside a try, so Ctrl-C and the end of the
\* input are uncaught too.
init_game(inp) ==
  /\ pc = "ready"
  /\ IF inp.type = "line" /\ lower(strip(inp.text)) = <<"y">> THEN start_game
     ELSE IF inp.type = "line" THEN Raise("AttributeError") /\ UNCHANGED rest
     ELSE IF inp.type = "interrupt" THEN Raise("KeyboardInterrupt") /\ UNCHANGED rest
     ELSE Raise("EOFError") /\ UNCHANGED rest

\* ---------------------------------------------------------- specification

Next ==
  \/ main
  \/ \E inp \in Inputs : ChooseOperation(inp)
  \/ \E inp \in Inputs : ChooseLevel(inp)
  \/ \E inp \in Inputs : ChooseCount(inp)
  \/ \E inp \in Inputs : init_game(inp)
  \/ \E op \in 1..Len(ArgOperations), lvl \in 1..Len(ArgLevels), n \in 1..Len(ArgCounts) :
       Construct(ArgOperations[op], ArgLevels[lvl], ArgCounts[n])
  \/ CallStartGame
  \/ NextQuestion
  \/ \E inp \in AnswerInputs : AnswerQuestion(inp)
  \/ FinishGame

Spec == Init /\ [][Next]_vars

\* ------------------------------------------------------------- properties

\* A session object exists.
SessionStates == {"ready", "NotStarted", "loop", "ask", "Completed"}

SessionExists == pc \in SessionStates

\* How many results tables have been printed.
Tables == Cardinality({k \in 1..Len(out) : out[k] = "table"})

\* The session has reached Completed at least once.
HasCompleted == Tables >= 1

RECURSIVE Pow10(_)
Pow10(n) == IF n <= 0 THEN 1 ELSE 10 * Pow10(n - 1)

Abs(x) == IF x < 0 THEN 0 - x ELSE x

\* C1 as the specification states it: in a session started once, the two
\* counters add up to the number of questions answered so far, and in
\* Completed they add up to num_questions exactly.
C1_CountersSumToN ==
  starts = 1 =>
    /\ num_correct + num_incorrect = answered
    /\ pc = "Completed" => num_correct + num_incorrect = num_questions

\* What holds of C1 whatever the question count: the counters add up to the
\* answers returned, and in Completed to num_questions when that is not negative.
CountersSumToAnswered ==
  starts = 1 =>
    /\ num_correct + num_incorrect = answered
    /\ pc = "Completed" =>
         num_correct + num_incorrect = (IF num_questions < 0 THEN 0 ELSE num_questions)

\* C2 as the specification states it: for a level L in 1..5 the operand range
\* is (10^(L-1), 10^L - 1) and has 9 * 10^(L-1) integers.
C2_RangeAsStated ==
  (pc = "ask" /\ level \in 1..5) =>
    /\ limits = <<Pow10(level - 1), Pow10(level) - 1>>
    /\ limits[2] - limits[1] + 1 = 9 * Pow10(level - 1)

\* C2 amended: for a level L in 1..5 the range get_level_nums returns, from
\* which the operands of a question are drawn, is (10^L, 10^(L+1) - 1) and has
\* 9 * 10^L integers.
C2_RangeOfLevel ==
  (pc = "ask" /\ level \in 1..5) =>
    /\ limits = <<Pow10(level), Pow10(level + 1) - 1>>
    /\ limits[2] - limits[1] + 1 = 9 * Pow10(level)
    /\ limits[1] <= num_b /\ num_a <= limits[2]

\* A question of level 5 with both ends of its range drawn.
C2_Witness ==
  /\ pc = "ask"
  /\ level = 5
  /\ limits = <<100000, 999999>>
  /\ num_a = 999999
  /\ num_b = 100000

\* C3: while a question is at its prompt, the operand presented first is
\* greater than or equal to the second, and the expected result is the one
\* computed from the operands in that order.
C3_LargerFirst ==
  pc = "ask" =>
    /\ num_a >= num_b
    /\ result = get_result(operator_str, num_a, num_b)
    /\ ~result.neg

\* A subtraction whose two draws differ: 99 - 10 = 89.
C3_Witness ==
  /\ pc = "ask"
  /\ operator_str = "-"
  /\ num_a = 99
  /\ num_b = 10
  /\ result.int = <<9, 8>>

\* C4: in a division question of a level in 1..5 the divisor is at least 1,
\* no division by zero is raised, and the quotient, as drawn and as rounded,
\* is at least 1.
C4_DivisionSafe ==
  level \in 1..5 =>
    /\ error # "ZeroDivisionError"
    /\ (pc = "ask" /\ operator_str = "/") =>
         /\ num_b >= 1
         /\ num_a >= num_b
         /\ 10 * DigitsValue(result.int) + result.tenth >= 10

\* A division at the highest level with equal operands: the quotient is 1.0.
C4_Witness ==
  /\ pc = "ask"
  /\ operation = 4
  /\ operator_str = "/"
  /\ level = 5
  /\ num_a = num_b
  /\ result = [neg |-> FALSE, int |-> <<1>>, tenth |-> 0]

\* The expected result of the question at the prompt is the operation applied
\* to the operands; for a division it is a number of tenths nearest to the
\* quotient.
ResultIsExpected ==
  CASE operator_str = "+" -> result = [neg |-> FALSE, int |-> NatDigits(num_a + num_b), tenth |-> 0]
    [] operator_str = "-" -> result = [neg |-> FALSE, int |-> NatDigits(num_a - num_b), tenth |-> 0]
    [] operator_str = "*" -> result = [neg |-> FALSE, int |-> MulDigits(num_a, num_b), tenth |-> 0]
    [] operator_str = "/" ->
         /\ ~result.neg
         /\ 2 * Abs(10 * num_a - (10 * DigitsValue(result.int) + result.tenth) * num_b) <= num_b

\* C5: every answer the provider returns adds exactly 1 to exactly one counter,
\* to num_correct if and only if the answer equals the expected result (a
\* quotient with a non-zero tenth equals no integer), and the counters change
\* in no other step.
C5_ExactlyOneCounter ==
  [][ /\ answered' # answered =>
           /\ pc = "ask"
           /\ ResultIsExpected
           /\ \/ num_correct' = num_correct + 1 /\ num_incorrect' = num_incorrect
              \/ num_incorrect' = num_incorrect + 1 /\ num_correct' = num_correct
           /\ num_correct' = num_correct + 1
                <=> (result.tenth = 0 /\ result.int = user_answer')
      /\ answered' = answered => UNCHANGED <<num_correct, num_incorrect>>
    ]_vars

\* 200 / 100 = 2.0 answered with 2 has been counted correct.
C5_Witness ==
  /\ pc = "loop"
  /\ operator_str = "/"
  /\ num_a = 200
  /\ num_b = 100
  /\ result = [neg |-> FALSE, int |-> <<2>>, tenth |-> 0]
  /\ user_answer = <<2>>
  /\ num_correct = 1
  /\ num_incorrect = 0

\* C6 as the specification states it: no session exists with a question count
\* of zero or less.
C6_PositiveCount == SessionExists => num_questions >= 1

\* C7 as the specification states it: no session exists with an operation
\* outside 1..4 or a level outside 1..5.
C7_ValidSelection == SessionExists => (operation \in 1..4 /\ level \in 1..5)

\* C8 as the specification states it, for a session of at least one question:
\* once the session has reached Completed, no step changes the counters or the
\* elapsed time.
C8_CompletedImmutable ==
  [][ (HasCompleted /\ num_questions >= 1) =>
        UNCHANGED <<num_correct, num_incorrect, total_time>>
    ]_vars

\* What holds of C8: run as a script, the program ends with the session, and
\* nothing is started again.
CompletedIsFinalInMain ==
  [][ (mode = "main" /\ pc = "Completed") => UNCHANGED vars ]_vars

\* What holds of C9: a session that main constructed, or one constructed as
\* main would and started once, ends by no exception of its own, and prints
\* its one table after exactly num_questions answers.
ValidSessionCompletesOnce ==
  (operation \in 1..4 /\ level \in 1..5 /\ num_questions >= 1 /\ starts = 1) =>
    /\ pc = "crashed" => error = "EOFError"
    /\ Tables <= 1
    /\ out # <<>> => (pc = "Completed" /\ answered = num_questions)
    /\ pc = "Completed" => Tables = 1

\* C9 as the specification states it, in the form a finite run refutes: a
\* started session ends by no exception of its own (the end of the input is
\* the provider not returning), it prints at most one results table, and
\* nothing of the result is printed before exactly num_questions answers have
\* been recorded.
C9_CompletesOnce ==
  /\ (starts >= 1 /\ pc = "crashed") => error = "EOFError"
  /\ Tables <= 1
  /\ out # <<>> => (answered = num_questions /\ num_correct + num_incorrect = num_questions)

\* C10: every answer returned is in a counter before anything else happens; at
\* most one question is outstanding, and only at the prompt; a question is
\* handed to the provider only when none is outstanding, and it is the next in
\* order: the index moves by one, with an answer, or back to the start.
C10_Sequential ==
  /\ [](/\ num_correct + num_incorrect = answered
        /\ asked - answered \in {0, 1}
        /\ pc = "ask" => (asked = answered + 1 /\ 0 <= i /\ i < num_questions)
        /\ pc = "loop" => (asked = answered /\ 0 <= i))
  /\ [][ /\ asked' # asked =>
              /\ asked' = asked + 1
              /\ asked = answered
              /\ pc = "loop" /\ pc' = "ask"
              /\ i' = i
         /\ i' # i => \/ i' = i + 1 /\ answered' = answered + 1 /\ pc = "ask"
                      \/ i' = 0
       ]_vars

\* The second question is at its prompt and the first answer is counted.
C10_Witness ==
  /\ pc = "ask"
  /\ starts = 1
  /\ i = 1
  /\ asked = 2
  /\ answered = 1
  /\ num_correct + num_incorrect = 1

\* The message get_positive_int exits with on Ctrl-C.
Farewell == "Game Interrupted, Quitting."

\* C11: Ctrl-C at the prompt of a question, after any number of answers, ends
\* the program at once with the farewell message; the step prints nothing and
\* changes no field, nothing happens after it, and the interrupted run has no
\* results table: one table fewer than runs started.
C11_InterruptEndsSession ==
  /\ [](pc = "exited" =>
          /\ exit_msg = Farewell
          /\ error = ""
          /\ asked > answered => (Tables = starts - 1 /\ (starts = 1 => out = <<>>)))
  /\ [][ /\ AnswerQuestion(Interrupt) =>
              /\ pc' = "exited"
              /\ exit_msg' = Farewell
              /\ out' = out
              /\ UNCHANGED <<fields, answered>>
         /\ pc = "exited" => UNCHANGED vars
       ]_vars

\* Ctrl-C at the second of two questions, after one answer: nothing printed.
C11_Witness ==
  /\ pc = "exited"
  /\ exit_msg = Farewell
  /\ num_questions = 2
  /\ asked = 2
  /\ answered = 1
  /\ out = <<>>

\* A line that is a positive integer in decimal: spaces around it, an optional
\* plus sign, then digits of which one is not zero.
PositiveDecimal(t) ==
  \E lo \in 1..Len(t), hi \in 1..Len(t) :
    /\ lo <= hi
    /\ \A k \in 1..Len(t) : (k < lo \/ k > hi) => t[k] = " "
    /\ \A k \in lo..hi : IsDigitChar(t[k]) \/ (k = lo /\ lo < hi /\ t[k] = "+")
    /\ \E k \in lo..hi : IsDigitChar(t[k]) /\ t[k] # "0"

\* The digits a line has, without its leading zeros.
DecimalDigits(t) ==
  LET ds == SelectSeq(t, IsDigitChar)
      z  == CHOOSE n \in 0..Len(ds) :
              /\ \A k \in 1..n : ds[k] = "0"
              /\ n < Len(ds) => ds[n + 1] # "0"
  IN  SubSeq(ds, z + 1, Len(ds))

\* An integer that is at least 1, given by its digits.
AtLeastOne(digits) == \E k \in 1..Len(digits) : digits[k] # 0

\* C12: get_positive_int returns only integers that are at least 1.  At each of
\* its prompts (the menus, the count, a question) a line that is a positive
\* integer is returned with its value and every other line is not returned: the
\* prompt is shown again.  An answer that reaches start_game is at least 1 and
\* is the value of a positive integer typed; so the first positive integer of
\* the lines typed is the value returned.
C12_PositiveOnly ==
  /\ [](/\ \A t \in (IF pc = "ask" THEN AnswerLines
                       ELSE IF pc \in {"op_menu", "level_menu", "count"} THEN Lines
                       ELSE {}) :
             IF PositiveDecimal(t)
             THEN /\ get_positive_int(Line(t)).kind = "return"
                  /\ str(get_positive_int(Line(t)).value) = DecimalDigits(t)
             ELSE get_positive_int(Line(t)).kind = "again"
        /\ user_answer # <<>> => AtLeastOne(user_answer)
        /\ (mode = "main" /\ pc \in {"level_menu", "count", "ready"}) => operation >= 1
        /\ (mode = "main" /\ pc \in {"count", "ready"}) => level >= 1
        /\ (mode = "main" /\ pc = "ready") => num_questions >= 1)
  /\ [][ (pc = "ask" /\ answered' # answered) =>
           /\ AtLeastOne(user_answer')
           /\ \E t \in AnswerLines :
                PositiveDecimal(t) /\ str(user_answer') = DecimalDigits(t) ]_vars

\* In main the three prompts and the first question have each returned a value.
C12_Witness ==
  /\ mode = "main"
  /\ pc = "loop"
  /\ answered = 1
  /\ user_answer = <<1>>
  /\ operation = 1
  /\ level = 1
  /\ num_questions = 1

\* C14: at the readiness prompt the line `n` ends the program at once with
\* exit('Goodbye!'): the quiz is not started, nothing is printed of a result,
\* and no exception ends the program instead.
C14_NoSaysGoodbye ==
  [][ init_game(Line(<<"n">>)) =>
        /\ pc' = "exited"
        /\ exit_msg' = "Goodbye!"
        /\ error' = ""
        /\ starts' = starts
        /\ out' = out ]_vars

\* C15: at the readiness prompt a line that is neither `y` nor `n` leaves the
\* program at the prompt, which is shown again; the prompt is left by a line
\* only when the quiz starts (`y`) or the program exits (`n`).
C15_AsksAgain ==
  [][ \A t \in Lines :
        init_game(Line(t)) =>
          /\ lower(strip(t)) \notin {<<"y">>, <<"n">>} => (pc' = "ready" /\ UNCHANGED vars)
          /\ pc' # "ready" => (pc' \in {"loop", "exited"} /\ error' = "") ]_vars

\* C16: when a session completes, what is printed is the title, the results
\* table and then, last, the congratulation if and only if num_correct equals
\* num_questions; the congratulation is never printed but right after a table.
C16_WinIffAllCorrect ==
  /\ [](\A k \in 1..Len(out) : out[k] = "WIN" => (k > 1 /\ out[k - 1] = "table"))
  /\ [][ (pc = "loop" /\ pc' = "Completed") =>
           /\ num_correct' = num_questions' =>
                out' = out \o <<"HIGHSCORES", "table", "WIN">>
           /\ num_correct' # num_questions' =>
                out' = out \o <<"HIGHSCORES", "table">> ]_vars

\* Two questions, both correct: the congratulation follows the table.
C16_Witness ==
  /\ pc = "Completed"
  /\ num_questions = 2
  /\ num_correct = 2
  /\ num_incorrect = 0
  /\ out = <<"HIGHSCORES", "table", "WIN">>

\* The longer of two lengths.
Longer(a, b) == IF a < b THEN b ELSE a

\* C17 as the specification states it: in the table of a completed session the
\* header cell and the value cell of each of the six columns have the same
\* width, and that width is at least 12 characters.  Stated of the sessions
\* with at least one question.
C17_WidthAtLeastTwelve ==
  (pc = "Completed" /\ num_questions >= 1) =>
    \A k \in 1..6 :
      /\ Len(padded(k)[1]) = Len(padded(k)[2])
      /\ Len(padded(k)[1]) >= 12

\* C17 as the code has it: the two cells of a column have the same width, the
\* length of the longer of the header and the value as text; the shorter one is
\* padded and the longer one printed as it is.  There is no least width.
C17_WidthOfLonger ==
  pc = "Completed" =>
    \A k \in 1..6 :
      /\ Len(padded(k)[1]) = Len(padded(k)[2])
      /\ Len(padded(k)[1]) = Longer(Len(headers[k]), Len(highscores[k]))
      /\ Len(headers[k]) >= Len(highscores[k]) => padded(k)[1] = headers[k]
      /\ Len(headers[k]) <= Len(highscores[k]) => padded(k)[2] = highscores[k]

\* A table whose first header is padded (Substraction, 12 characters, under
\* Operation, 9) and whose other values are padded (Easy under Level).
C17_Witness ==
  /\ pc = "Completed"
  /\ operation = 2
  /\ level = 1
  /\ Len(padded(1)[1]) = 12
  /\ Len(padded(2)[2]) = 5
  /\ padded(3)[2] = "1      "

\* C18: in every run of main the session is constructed only with an operation
\* in 1..4, a level in 1..5 and at least one question: a menu is left only
\* with a number between 1 and the number of its options, and the count is
\* what get_positive_int returned.
C18_MainConstructsValid ==
  mode = "main" =>
    /\ pc \in {"level_menu", "count"} \cup SessionStates => operation \in 1..Len(OPERATIONS)
    /\ pc \in {"count"} \cup SessionStates => level \in 1..Len(LEVELS)
    /\ pc \in SessionStates => num_questions >= 1

\* main has constructed the session with the last option of each menu.
C18_Witness ==
  /\ mode = "main"
  /\ pc = "ready"
  /\ operation = 4
  /\ level = 5
  /\ num_questions = 2

\* The expected result of the question in start_game's frame is not a positive
\* integer: it is zero, negative, or has a decimal that is not zero.
NotPositiveInteger(res) == res.neg \/ res.int = <<>> \/ res.tenth # 0

\* C19: a question whose expected result is not a positive integer is counted
\* incorrect whatever answer is returned, and a session that contains such a
\* question does not have num_correct equal to num_questions: not while the
\* question is at its prompt, and not once it is scored.
C19_NotPositiveNeverWins ==
  /\ [][ (pc = "ask" /\ answered' # answered /\ NotPositiveInteger(result)) =>
           /\ num_incorrect' = num_incorrect + 1
           /\ num_correct' = num_correct ]_vars
  /\ []((pc \in {"ask", "loop"} /\ operator_str # "" /\ NotPositiveInteger(result)) =>
          num_correct # num_questions)

\* What holds of C19 in a session started once: the scoring, and the counter
\* below num_questions while such a question is in the frame.
NotPositiveNeverWinsOnce ==
  /\ [][ (pc = "ask" /\ answered' # answered /\ NotPositiveInteger(result)) =>
           /\ num_incorrect' = num_incorrect + 1
           /\ num_correct' = num_correct ]_vars
  /\ []((starts = 1 /\ pc \in {"ask", "loop"} /\ operator_str # "" /\ NotPositiveInteger(result)) =>
          num_correct < num_questions)

====
